---- MODULE Spec2Model ----
(***************************************************************************)
(* Squad construction and optimisation engine of fpl-predictor:            *)
(*   Squad (squad.py), SquadBuilder.build_team and _player_pool            *)
(*   (squad_builder.py), optimiser and squad_optimisations (optimiser.py), *)
(*   PlayerScorer (player_scorer.py).                                      *)
(* First-team and captain picking (Squad.first_team, Squad.captain,       *)
(* SquadBuilder.pick_first_team) are modelled on full squads (SpecTeam).   *)
(* Scores are kept in integers: a score is the sum of the metric over the  *)
(* scoring window, score_per_value is score * SpvScale / value with        *)
(* SpvScale a common multiple of every value in the players table.         *)
(***************************************************************************)
EXTENDS Integers, Sequences, FiniteSets, TLC

\* ------------------------------------------------------------------ bounds
NumCodes == 10          \* players in the table used by the Squad scenarios
NumBuildCodes == 22     \* players in the table used by the build scenarios
MaxIterations == 2      \* largest `iterations` handed to optimiser
MaxPremium == 3         \* largest `n_premium` handed to build_team
RecursionLimit == 5     \* depth at which the interpreter raises RecursionError
MaxScore == 2           \* largest score in the first-team scenarios
MaxWindow == 13         \* largest window `n` handed to the PlayerScorer
MaxSquad == 6           \* largest squad handed to the optimiser scenarios
MaxMissing == 1         \* most players missing from a built squad changed by hand

\* ------------------------------------------------------ program constants
cap == 1000
limits == ("FWD" :> 3) @@ ("MID" :> 5) @@ ("DEF" :> 5) @@ ("GK" :> 2)
MinutesPerGame == 90
DefaultN == 5
DefaultNPremium == 3
BuildWindows == {2, DefaultN}
\* n_premium handed to build_team: small counts, and one more than a squad
\* holds.
PremiumCounts == (0..MaxPremium) \cup {15 + 1}
r == 2

Positions == {"GK", "DEF", "MID", "FWD"}

\* ------------------------------------------------------- the players table
\* One row per player code: position, team and value (PlayerInformation),
\* the metric a player scores in every gameweek he plays, and whether he
\* only started to play in the last two gameweeks of the data.
PosTable ==
  <<"GK", "GK", "GK", "GK", "FWD", "FWD", "FWD", "FWD", "MID", "MID",
    "DEF", "DEF", "DEF", "DEF", "DEF", "MID", "MID", "MID", "GK", "MID",
    "DEF", "FWD">>
TeamTable ==
  <<"A", "A", "B", "B", "A", "A", "A", "B", "A", "C",
    "C", "C", "D", "D", "E", "D", "E", "E", "F", "F",
    "F", "C">>
ValueTable ==
  <<1001, 500, 500, 50, 50, 40, 100, 77, 50, 100,
    40, 44, 50, 55, 65, 56, 70, 88, 44, 65,
    50, 70>>
PointsTable ==
  <<9, 5, 4, 3, 6, 2, 7, 8, 4, 6,
    1, 2, 3, 3, 5, 4, 6, 7, 2, 5,
    2, 5>>
LateStarters == {15, 21}
SpvScale == 1000 * 1001

TableLen == Len(PosTable)
Idx(c) == ((c - 1) % TableLen) + 1
Position(c) == PosTable[Idx(c)]
Team(c) == TeamTable[Idx(c)]
Value(c) == ValueTable[Idx(c)]
Teams == {TeamTable[i] : i \in 1..TableLen}

\* Gameweeks of the master data, as index positions of the (year, GW) index.
ix_list == <<<<1, 1>>, <<1, 2>>, <<1, 3>>, <<2, 1>>, <<2, 2>>, <<2, 3>>>>
ScoringIx == Len(ix_list)

Played(c, t) == ~(Idx(c) \in LateStarters /\ t <= Len(ix_list) - 2)
Points(c, t) == IF Played(c, t) THEN PointsTable[Idx(c)] ELSE 0
Minutes(c, t) == IF Played(c, t) THEN MinutesPerGame ELSE 0

\* Sum of a column of the master index over a set of gameweeks.
SumOver(S, c, col) ==
  LET F[t \in 0..Len(ix_list)] ==
        IF t = 0 THEN 0
        ELSE F[t - 1] + (IF t \notin S THEN 0
                         ELSE IF col = "minutes" THEN Minutes(c, t)
                         ELSE Points(c, t))
  IN F[Len(ix_list)]

\* Python slice ix_list[lo:hi] as the set of 1-based index positions.
PySlice(len, lo, hi) ==
  LET nlo == IF lo < 0 THEN (IF lo + len < 0 THEN 0 ELSE lo + len)
             ELSE (IF lo > len THEN len ELSE lo)
      nhi == IF hi < 0 THEN (IF hi + len < 0 THEN 0 ELSE hi + len)
             ELSE (IF hi > len THEN len ELSE hi)
  IN {t \in 1..len : t > nlo /\ t <= nhi}

\* aggregate_master: the index positions aggregated for (ix, n).
window(ix, n, cross_seasons) ==
  LET max_ix == ix
      min_ix == max_ix - n
      indices == PySlice(Len(ix_list), min_ix, max_ix)
  IN IF cross_seasons THEN indices
     ELSE {t \in indices : ix_list[t][1] = ix_list[ix][1]}

\* get_all_scores / SquadBuilder.players: the scored map of a set of codes for
\* the window of n gameweeks ending at ScoringIx.  minutes and periods give
\* the minutes_percent ratio minutes / (periods * 90).
get_all_scores(codes, n) ==
  [c \in codes |->
     LET w == window(ScoringIx, n, TRUE)
         pts == SumOver(w, c, "points")
     IN [score |-> pts,
         score_per_value |-> (pts * SpvScale) \div Value(c),
         minutes |-> SumOver(w, c, "minutes"),
         periods |-> n]]

\* get_player_minutes_percent: the minutes summed over the window and the
\* number they are divided by; without cross_seasons n becomes min(week, n).
get_player_minutes_percent(c, ix, n, cross_seasons) ==
  LET s == SumOver(window(ix, n, cross_seasons), c, "minutes")
      week == ix_list[ix][2]
      n_used == IF ~cross_seasons /\ week < n THEN week ELSE n
  IN [minutes |-> s, divisor |-> n_used * MinutesPerGame]

NoAggregate ==
  [op |-> "none", code |-> 0, ix |-> 0, n |-> 0, cross_seasons |-> TRUE,
   indices |-> {}, minutes |-> 0, divisor |-> 0]

VARIABLES
  selected,     \* Squad.selected: the held player codes, in row order
  scored,       \* the scored map of the players table for the window in use
  players,      \* codes present in the players table
  last,         \* outcome of the latest Squad.add_player / remove_player call
  opt,          \* the frame of the running (or just finished) optimiser call
  bld,          \* the frame of the running (or just finished) build_team call
  first_team,   \* SquadBuilder.__first_team: the codes of the first team
  agg,          \* the latest call on the PlayerScorer and what it gave
  turns         \* loop turns the latest optimiser call has taken

vars == <<selected, scored, players, last, opt, bld, first_team, agg, turns>>

score(c) == scored[c].score
score_per_value(c) == scored[c].score_per_value

\* ------------------------------------------------------------------ helpers
Range(s) == {s[i] : i \in 1..Len(s)}

RECURSIVE SeqSum(_, _)
SeqSum(s, col) ==
  IF s = <<>> THEN 0
  ELSE (CASE col = "value" -> Value(Head(s))
          [] col = "score" -> score(Head(s))
          [] OTHER -> score_per_value(Head(s)))
       + SeqSum(Tail(s), col)

\* The sequences ss[1], ..., ss[n] joined, by halves.
Flatten(ss, n) ==
  LET F[lo \in 1..(n + 1), hi \in 0..n] ==
        IF lo > hi THEN <<>>
        ELSE IF lo = hi THEN ss[lo]
        ELSE LET mid == (lo + hi) \div 2
             IN F[lo, mid] \o F[mid + 1, hi]
  IN F[1, n]

\* DataFrame.sort_values on several columns is a stable sort: a row goes
\* after every row that strictly precedes it and after every earlier row
\* that it does not strictly precede.
StableSort(s, Less(_, _)) ==
  LET t == s \o <<>>
      n == Len(t)
      rank == [i \in 1..n |->
                 1 + Cardinality({j \in 1..(i - 1) : ~Less(t[i], t[j])})
                   + Cardinality({j \in (i + 1)..n : Less(t[j], t[i])})]
              \o <<>>
  IN [k \in 1..n |-> t[CHOOSE i \in 1..n : rank[i] = k]] \o <<>>

\* iloc[0] of a stable sort: the first row no other row strictly precedes.
SortedHead(s, Less(_, _)) ==
  s[CHOOSE i \in 1..Len(s) :
      \A j \in 1..Len(s) : ~Less(s[j], s[i]) /\ (j < i => Less(s[i], s[j]))]

SelectSeq2(s, Keep(_)) ==
  LET t == s \o <<>>
  IN Flatten([i \in 1..Len(t) |-> IF Keep(t[i]) THEN <<t[i]>> ELSE <<>>],
             Len(t))

\* -------------------------------------------------------------------- Squad
total_score(sel) == SeqSum(sel, "score")
total_score_per_val(sel) == SeqSum(sel, "score_per_value")
total_value(sel) == SeqSum(sel, "value")
available_budget(sel) == 1000 - total_value(sel)
selected_list(sel) == Range(sel)

position_count(sel, pos) ==
  Cardinality({i \in 1..Len(sel) : Position(sel[i]) = pos})
team_count(sel, t) ==
  Cardinality({i \in 1..Len(sel) : Team(sel[i]) = t})

squad_full(sel) == Len(sel) = 15
full_by_position(sel) == [pos \in Positions |-> position_count(sel, pos)]
empty_by_position(sel) ==
  [pos \in Positions |-> limits[pos] - full_by_position(sel)[pos]]
need_positions_two_short(sel) ==
  {pos \in Positions : empty_by_position(sel)[pos] > 1}
need_positions(sel) == {pos \in Positions : empty_by_position(sel)[pos] # 0}

maxed_out_teams_above_three(sel) ==
  IF Len(sel) < 3 THEN {}
  ELSE {t \in Teams : team_count(sel, t) > 3}
maxed_out_teams(sel) ==
  IF Len(sel) < 3 THEN {}
  ELSE {t \in Teams : team_count(sel, t) >= 3}

\* Row order kept by add_player: score and score_per_value descending,
\* value ascending.
squad_order(a, b) ==
  \/ score(a) > score(b)
  \/ score(a) = score(b) /\ score_per_value(a) > score_per_value(b)
  \/ score(a) = score(b) /\ score_per_value(a) = score_per_value(b)
     /\ Value(a) < Value(b)

position_filled_off_by_one(sel, c) ==
  position_count(sel, Position(c)) > limits[Position(c)]
position_filled(sel, c) ==
  position_count(sel, Position(c)) = limits[Position(c)]

not_enough_money_price_only(sel, c) == Value(c) > cap
not_enough_money(sel, c) == total_value(sel) + Value(c) > cap

already_selected_never(sel, c) == FALSE
already_selected(sel, c) == c \in selected_list(sel)

maxed_out_team(sel, c) == Team(c) \in maxed_out_teams(sel)

\* The exception add_player raises, or "ok".
add_player_outcome_budget_first(sel, c) ==
  IF not_enough_money(sel, c) THEN "NotEnoughMoney"
  ELSE IF position_filled(sel, c) THEN "PositionFilled"
  ELSE IF already_selected(sel, c) THEN "AlreadySelected"
  ELSE IF maxed_out_team(sel, c) THEN "MaxedOutTeam"
  ELSE "ok"
add_player_outcome_strict_budget(sel, c) ==
  IF position_filled(sel, c) THEN "PositionFilled"
  ELSE IF total_value(sel) + Value(c) >= cap THEN "NotEnoughMoney"
  ELSE IF already_selected(sel, c) THEN "AlreadySelected"
  ELSE IF maxed_out_team(sel, c) THEN "MaxedOutTeam"
  ELSE "ok"
add_player_outcome(sel, c) ==
  IF position_filled(sel, c) THEN "PositionFilled"
  ELSE IF not_enough_money(sel, c) THEN "NotEnoughMoney"
  ELSE IF already_selected(sel, c) THEN "AlreadySelected"
  ELSE IF maxed_out_team(sel, c) THEN "MaxedOutTeam"
  ELSE "ok"

add_player_keeps_fourth(sel, c) ==
  IF add_player_outcome(sel, c) \in {"ok", "MaxedOutTeam"}
  THEN StableSort(Append(sel, c), squad_order)
  ELSE sel
add_player(sel, c) ==
  IF add_player_outcome(sel, c) = "ok"
  THEN StableSort(Append(sel, c), squad_order)
  ELSE sel

remove_player_outcome(sel, c) ==
  IF c \notin Range(sel) THEN "ValueError" ELSE "ok"

remove_player_whole_team(sel, c) ==
  IF remove_player_outcome(sel, c) = "ok"
  THEN SelectSeq2(sel, LAMBDA x : Team(x) # Team(c))
  ELSE sel
remove_player(sel, c) ==
  IF remove_player_outcome(sel, c) = "ok"
  THEN SelectSeq2(sel, LAMBDA x : x # c)
  ELSE sel

\* Squad.first_team: the best keeper, then the other rows in order while
\* the position has room; 5 defenders cap the midfielders at 4 and 5
\* midfielders cap the defenders at 4.
first_team_max_picks == ("DEF" :> 5) @@ ("MID" :> 5) @@ ("FWD" :> 3)

Squad_first_team(sel) ==
  LET df == StableSort(sel, squad_order)
      keepers == SelectSeq2(df, LAMBDA c : Position(c) = "GK")
      rest == SelectSeq2(df, LAMBDA c : Position(c) # "GK")
      F[i \in 0..Len(rest)] ==
        IF i = 0
        THEN [team |-> <<keepers[1]>>, max_picks |-> first_team_max_picks]
        ELSE LET st == F[i - 1]
                 pos == Position(rest[i])
                 team == IF position_count(st.team, pos) < st.max_picks[pos]
                         THEN Append(st.team, rest[i]) ELSE st.team
                 capped == IF position_count(team, "DEF") = 5
                           THEN [st.max_picks EXCEPT !["MID"] = 4]
                           ELSE st.max_picks
             IN IF Len(st.team) = 11 THEN st
                ELSE [team |-> team,
                      max_picks |-> IF position_count(team, "MID") = 5
                                    THEN [capped EXCEPT !["DEF"] = 4]
                                    ELSE capped]
  IN F[Len(rest)].team

\* Squad.captain and Squad.vice_captain: rows 0 and 1 of the sorted squad.
Squad_captain(sel) == StableSort(sel, squad_order)[1]
Squad_vice_captain(sel) == StableSort(sel, squad_order)[2]

\* ---------------------------------------------------------------- pool
\* minutes_percent >= min_minute_percent (0.5); an empty or negative window
\* gives NaN or -0.0, which fails the comparison.
minutes_percent_ok(c) ==
  /\ scored[c].periods > 0
  /\ 2 * scored[c].minutes >= scored[c].periods * MinutesPerGame

\* player_availability: minutes played in the previous gameweek as a proxy.
available(c) == Minutes(c, ScoringIx) > 0

\* Row order of SquadBuilder.players: score descending.
players_order(a, b) == score(a) > score(b)

RECURSIVE SetToSeq(_)
SetToSeq(S) ==
  IF S = {} THEN <<>>
  ELSE LET x == CHOOSE y \in S : \A z \in S : y <= z
       IN <<x>> \o SetToSeq(S \ {x})

\* _player_pool(position, max_val): `position` is a set of positions or
\* PositionNone; `if position:` skips the filter for None and for an empty
\* list alike.  `max_val` is a number, or -1 for None.
PositionNone == {"None"}

player_pool(sel, position, max_val) ==
  LET df == StableSort(SetToSeq(players), players_order)
      keep(c) ==
        /\ (position = PositionNone \/ position = {}
             \/ Position(c) \in position)
        /\ (max_val = -1 \/ Value(c) <= max_val)
        /\ minutes_percent_ok(c)
        /\ available(c)
        /\ c \notin selected_list(sel)
        /\ Team(c) \notin maxed_out_teams(sel)
  IN SelectSeq2(df, keep)

get_player_pool(sel) == player_pool(sel, PositionNone, -1)

\* ----------------------------------------------------------- optimiser.py
\* itertools.combinations(codes, k), in its order.
RECURSIVE combinations(_, _)
combinations(s, k) ==
  IF k = 0 THEN << <<>> >>
  ELSE IF Len(s) < k THEN <<>>
  ELSE LET with == combinations(Tail(s), k - 1)
           without == combinations(Tail(s), k)
       IN [j \in 1..Len(with) |-> <<Head(s)>> \o with[j]] \o without

\* One row of get_perms: the combination p0..p(r-1) with its totals, the
\* sorted positions tuple (as counts per position) and the players tuple.
perm_row(cb) ==
  [p |-> cb,
   score_total |-> SeqSum(cb, "score"),
   value_total |-> SeqSum(cb, "value"),
   score_per_value_total |-> SeqSum(cb, "score_per_value"),
   positions |-> [pos \in Positions |->
                    Cardinality({j \in 1..Len(cb) : Position(cb[j]) = pos})],
   players |-> Range(cb)]

get_perms(raw) ==
  LET perms == combinations(raw, r)
  IN [j \in 1..Len(perms) |-> perm_row(perms[j])] \o <<>>

score_col_total(row, spv) ==
  IF spv THEN row.score_per_value_total ELSE row.score_total

subset_perms_filter_any_value(row, positions, min_score, max_val, spv) ==
  /\ row.positions = positions
  /\ score_col_total(row, spv) > min_score
subset_perms_filter_whole_budget(row, positions, min_score, max_val, spv) ==
  /\ row.positions = positions
  /\ score_col_total(row, spv) > min_score
  /\ row.value_total <= max_val
subset_perms_filter_not_strict(row, positions, min_score, max_val, spv) ==
  /\ row.positions = positions
  /\ score_col_total(row, spv) >= min_score
  /\ row.value_total < max_val
subset_perms_filter(row, positions, min_score, max_val, spv) ==
  /\ row.positions = positions
  /\ score_col_total(row, spv) > min_score
  /\ row.value_total < max_val

subset_perms_order(a, b, spv) ==
  \/ score_col_total(a, spv) > score_col_total(b, spv)
  \/ score_col_total(a, spv) = score_col_total(b, spv)
     /\ a.value_total < b.value_total

squad_perms_order(a, b, spv) ==
  \/ score_col_total(a, spv) < score_col_total(b, spv)
  \/ score_col_total(a, spv) = score_col_total(b, spv)
     /\ a.value_total > b.value_total

score_col_diff(o, spv) ==
  score_col_total(o.add, spv) - score_col_total(o.remove, spv)
value_diff(o) == o.add.value_total - o.remove.value_total

optimisations_order_as_collected(a, b, spv) == FALSE
optimisations_order(a, b, spv) ==
  \/ score_col_diff(a, spv) > score_col_diff(b, spv)
  \/ score_col_diff(a, spv) = score_col_diff(b, spv)
     /\ value_diff(a) < value_diff(b)

\* better_perms of one squad combination: subset_perms on the pool perms,
\* minus the row with the same players tuple.
better_perms(pool_perms, remove, spare_budget, spv) ==
  SelectSeq2(pool_perms,
    LAMBDA row :
      /\ subset_perms_filter(row, remove.positions,
                             score_col_total(remove, spv),
                             spare_budget + remove.value_total, spv)
      /\ row.players # remove.players)

\* The rows squad_optimisations collects, one per squad combination that
\* has better perms, in the order of squad_perms; then its final sort.
squad_optimisations_rows(sel, spv) ==
  LET squad_perms == StableSort(get_perms(sel),
                       LAMBDA a, b : squad_perms_order(a, b, spv))
      pool_perms == get_perms(get_player_pool(sel))
      spare_budget == available_budget(sel)
      df == [i \in 1..Len(squad_perms) |->
               LET better == better_perms(pool_perms, squad_perms[i],
                                          spare_budget, spv)
               IN IF Len(better) > 0
                  THEN <<[add |-> SortedHead(better,
                                    LAMBDA a, b : subset_perms_order(a, b, spv)),
                          remove |-> squad_perms[i]]>>
                  ELSE <<>>]
  IN Flatten(df, Len(squad_perms))

squad_optimisations(sel, spv) ==
  StableSort(squad_optimisations_rows(sel, spv),
             LAMBDA a, b : optimisations_order(a, b, spv))

\* The test squad of one optimisation: the squad without the players to
\* remove, then add_player for p0..p(r-1) until one raises.
RECURSIVE try_add(_, _)
try_add(test, cb) ==
  IF cb = <<>> THEN [squad |-> test, result |-> "ok"]
  ELSE IF add_player_outcome(test, Head(cb)) # "ok"
       THEN [squad |-> test, result |-> add_player_outcome(test, Head(cb))]
       ELSE try_add(add_player(test, Head(cb)), Tail(cb))

try_optimisation(sel, o) ==
  try_add(SelectSeq2(sel, LAMBDA c : c \notin o.remove.players), o.add.p)

\* `self.Squad.selected = test.selected`, reached only when no add raised.
swap_commit_partial(sel, t) == t.squad
swap_commit(sel, t) == IF t.result = "ok" THEN t.squad ELSE sel

squad_total(sel, spv) ==
  IF spv THEN total_score_per_val(sel) ELSE total_score(sel)

\* How a turn of `for i in range(iterations)` begins: the range is used up,
\* or `not len(optimisations)` returns, or the optimisations are tried.
pass_outcome_always_cant(i, iterations, optimisations) ==
  IF i >= iterations \/ Len(optimisations) = 0 THEN "cant_optimise"
  ELSE "try"
pass_outcome_one_more(i, iterations, optimisations) ==
  IF i > iterations THEN "exhausted"
  ELSE IF Len(optimisations) = 0 THEN "cant_optimise"
  ELSE "try"
pass_outcome(i, iterations, optimisations) ==
  IF i >= iterations THEN "exhausted"
  ELSE IF Len(optimisations) = 0 THEN "cant_optimise"
  ELSE "try"

IdleFrame ==
  [pc |-> "idle", i |-> 0, iterations |-> 0, spv |-> FALSE, todo |-> <<>>,
   increase |-> 0, original_score |-> 0, added |-> 0, swaps |-> 0,
   outcome |-> "none", start |-> <<>>, rerun |-> "none"]

\* ------------------------------------------------------- squad_builder.py
\* _select_player: the first row of the pool sorted by the metric
\* (descending), value (ascending) and the other metric (descending).
select_order_dearest_first(a, b, spv) ==
  LET first(c) == IF spv THEN score_per_value(c) ELSE score(c)
      other(c) == IF spv THEN score(c) ELSE score_per_value(c)
  IN \/ first(a) > first(b)
     \/ first(a) = first(b) /\ Value(a) > Value(b)
     \/ first(a) = first(b) /\ Value(a) = Value(b) /\ other(a) > other(b)
select_order(a, b, spv) ==
  LET first(c) == IF spv THEN score_per_value(c) ELSE score(c)
      other(c) == IF spv THEN score(c) ELSE score_per_value(c)
  IN \/ first(a) > first(b)
     \/ first(a) = first(b) /\ Value(a) < Value(b)
     \/ first(a) = first(b) /\ Value(a) = Value(b) /\ other(a) > other(b)

select_player(pool, spv) ==
  SortedHead(pool, LAMBDA a, b : select_order(a, b, spv))

\* The pool build_team asks for: position=need_positions,
\* max_val=available_budget.
build_pool(sel) ==
  player_pool(sel, need_positions(sel), available_budget(sel))

\* pick_first_team: rows in order of score and score_per_value (descending)
\* while the position has room, up to 11; then, if a position has nobody,
\* the last of the chosen non-keepers makes way for the best of it.
max_pos_picks == ("GK" :> 1) @@ ("DEF" :> 5) @@ ("MID" :> 5) @@ ("FWD" :> 5)

first_team_order(a, b) ==
  \/ score(a) > score(b)
  \/ score(a) = score(b) /\ score_per_value(a) > score_per_value(b)

top_eleven(df) ==
  LET F[i \in 0..Len(df)] ==
        IF i = 0 THEN <<>>
        ELSE LET team == F[i - 1]
                 pos == Position(df[i])
             IN IF Len(team) = 11 THEN team
                ELSE IF position_count(team, pos) < max_pos_picks[pos]
                     THEN Append(team, df[i]) ELSE team
  IN F[Len(df)]

\* `missing`, in the order of the keys of max_pos_picks.
missing_positions(team) ==
  SelectSeq2(<<"GK", "DEF", "MID", "FWD">>,
             LAMBDA pos : position_count(team, pos) = 0)

fill_missing_position_keep_all(df, team) == team
fill_missing_position(df, team) ==
  LET missing == missing_positions(team)
      others == StableSort(SelectSeq2(team, LAMBDA c : Position(c) # "GK"),
                           first_team_order)
      to_remove == others[Len(others)]
      to_add == StableSort(
                  SelectSeq2(df, LAMBDA c : Position(c) = missing[1]),
                  first_team_order)
      kept == SelectSeq2(team, LAMBDA c : c # to_remove)
  IN IF Len(missing) = 0 THEN team
     ELSE IF Len(to_add) = 0 THEN kept
     ELSE Append(kept, to_add[1])

pick_first_team(sel) ==
  LET df == StableSort(sel, first_team_order)
  IN fill_missing_position(df, top_eleven(df))

\* SquadBuilder.captain / vice_captain: the last and the last but one row of
\* the first team sorted by score alone; that sort is not stable, so rows of
\* equal score may come in any order.  The pairs <<captain, vice_captain>>
\* the sort can give.
captain_choices(team) ==
  {pair \in Range(team) \X Range(team) :
     /\ pair[1] # pair[2]
     /\ score(pair[1]) >= score(pair[2])
     /\ \A c \in Range(team) \ {pair[1], pair[2]} : score(c) <= score(pair[2])}

IdleBuild ==
  [pc |-> "idle", n |-> 0, n_premium |-> 0, p |-> 0, fill |-> 0,
   depth |-> 0, n_premium0 |-> 0, outcome |-> "none", result |-> "none"]

\* The latest call on the Squad: what was called, with which code, how it
\* ended, the held codes before it, and whether it adds the code that the
\* call just before it removed.
NoCall ==
  [op |-> "none", code |-> 0, result |-> "ok", before |-> <<>>,
   reinsert |-> FALSE]

\* ----------------------------------------------------------------- actions
Add(c) ==
  /\ opt.pc = "idle"
  /\ bld.pc = "idle"
  /\ last' = [op |-> "add", code |-> c,
              result |-> add_player_outcome(selected, c), before |-> selected,
              reinsert |-> (last.op = "remove" /\ last.result = "ok"
                            /\ last.code = c)]
  /\ selected' = add_player(selected, c)
  /\ UNCHANGED <<scored, players, opt, bld, first_team, agg, turns>>

Remove(c) ==
  /\ opt.pc = "idle"
  /\ bld.pc = "idle"
  /\ last' = [op |-> "remove", code |-> c,
              result |-> remove_player_outcome(selected, c),
              before |-> selected, reinsert |-> FALSE]
  /\ selected' = remove_player(selected, c)
  /\ UNCHANGED <<scored, players, opt, bld, first_team, agg, turns>>

\* optimiser(iterations, score_per_value) is called; a call made right
\* after a finished one remembers how that one ended.
OptStart(iterations, spv) ==
  /\ opt.pc \in {"idle", "done"}
  /\ bld.pc = "idle"
  /\ opt' = [IdleFrame EXCEPT
               !.pc = "loop", !.iterations = iterations, !.spv = spv,
               !.original_score = squad_total(selected, spv),
               !.start = selected,
               !.rerun = IF opt.pc = "done" /\ opt.spv = spv
                         THEN opt.outcome ELSE "none"]
  /\ last' = NoCall
  /\ turns' = 0
  /\ UNCHANGED <<selected, scored, players, bld, first_team, agg>>

\* Top of `for i in range(iterations)`: compute the optimisations.
OptPass ==
  /\ opt.pc = "loop"
  /\ LET optimisations == squad_optimisations(selected, opt.spv)
         outcome == pass_outcome(opt.i, opt.iterations, optimisations)
     IN IF outcome = "try"
        THEN opt' = [opt EXCEPT !.pc = "try", !.todo = optimisations]
        ELSE opt' = [opt EXCEPT !.pc = "done", !.outcome = outcome]
  /\ turns' = turns + 1
  /\ UNCHANGED <<selected, scored, players, last, bld, first_team, agg>>

\* One turn of `for row in optimisations.iterrows()`.
OptTry ==
  /\ opt.pc = "try"
  /\ IF opt.todo = <<>>
     THEN /\ opt' = [opt EXCEPT !.pc = "loop", !.i = @ + 1]
          /\ UNCHANGED <<selected, last>>
     ELSE LET o == Head(opt.todo)
              t == try_optimisation(selected, o)
              added == squad_total(t.squad, opt.spv)
                         - squad_total(selected, opt.spv)
          IN /\ last' = [op |-> "swap", code |-> 0, result |-> t.result,
                         before |-> selected, reinsert |-> FALSE]
             /\ selected' = swap_commit(selected, t)
             /\ IF t.result = "ok"
                THEN opt' = [opt EXCEPT !.pc = "loop", !.i = @ + 1,
                               !.todo = <<>>, !.added = added,
                               !.increase = @ + added, !.swaps = @ + 1]
                ELSE IF t.result \in {"AlreadySelected", "MaxedOutTeam"}
                     THEN opt' = [opt EXCEPT !.todo = Tail(@)]
                     ELSE opt' = [opt EXCEPT !.pc = "done",
                                    !.outcome = "raised", !.todo = <<>>]
  /\ turns' = turns + 1
  /\ UNCHANGED <<scored, players, bld, first_team, agg>>

\* The caller goes on after the optimiser has returned or raised.
OptExit ==
  /\ opt.pc = "done"
  /\ opt' = IdleFrame
  /\ turns' = 0
  /\ UNCHANGED <<selected, scored, players, last, bld, first_team, agg>>

\* build_team(year, week, n, n_premium) is called by the user.
BuildStart(n, n_premium) ==
  /\ bld.pc = "idle"
  /\ opt.pc = "idle"
  /\ bld' = [IdleBuild EXCEPT !.pc = "premium", !.n = n,
               !.n_premium = n_premium, !.depth = 1,
               !.n_premium0 = n_premium]
  /\ selected' = <<>>
  /\ scored' = get_all_scores(players, n)
  /\ last' = NoCall
  /\ UNCHANGED <<players, opt, first_team, agg, turns>>

\* `if not len(pool)`: build_team calls itself with n_premium - 1 as its
\* third positional argument, which is `n`; n_premium takes its default.
BuildRecurse ==
  IF bld.depth >= RecursionLimit
  THEN /\ bld' = [bld EXCEPT !.pc = "done", !.outcome = "RecursionError"]
       /\ UNCHANGED <<selected, scored, last>>
  ELSE /\ bld' = [bld EXCEPT !.pc = "premium", !.n = bld.n_premium - 1,
                    !.n_premium = DefaultNPremium, !.p = 0, !.fill = 0, !.depth = @ + 1]
       /\ selected' = <<>>
       /\ scored' = get_all_scores(players, bld.n_premium - 1)
       /\ last' = NoCall

\* One slot: fetch the pool, select a player and add him.
BuildSlot(spv) ==
  LET pool == build_pool(selected)
  IN IF Len(pool) = 0
     THEN BuildRecurse
     ELSE LET c == select_player(pool, spv)
          IN /\ last' = [op |-> "add", code |-> c,
                         result |-> add_player_outcome(selected, c),
                         before |-> selected, reinsert |-> FALSE]
             /\ selected' = add_player(selected, c)
             /\ scored' = scored
             /\ IF add_player_outcome(selected, c) = "ok"
                THEN bld' = [bld EXCEPT !.p = @ + 1]
                ELSE bld' = [bld EXCEPT !.pc = "done",
                               !.outcome = add_player_outcome(selected, c)]

\* `for p in range(n_premium)`.
BuildPremium ==
  /\ bld.pc = "premium"
  /\ IF bld.p >= bld.n_premium
     THEN /\ bld' = [bld EXCEPT !.pc = "fill", !.p = 0,
                       !.fill = 15 - Len(selected)]
          /\ UNCHANGED <<selected, scored, last>>
     ELSE BuildSlot(FALSE)
  /\ UNCHANGED <<players, opt, first_team, agg, turns>>

\* `for p in range(15 - len(selected))`, then pick_first_team and return:
\* the outermost call returns the squad only if it did not recurse.
BuildFill ==
  /\ bld.pc = "fill"
  /\ IF bld.p >= bld.fill
     THEN /\ bld' = [bld EXCEPT !.pc = "done", !.outcome = "returned",
                       !.result = IF bld.depth = 1 THEN "squad" ELSE "None"]
          /\ first_team' = pick_first_team(selected)
          /\ UNCHANGED <<selected, scored, last>>
     ELSE BuildSlot(TRUE) /\ first_team' = first_team
  /\ UNCHANGED <<players, opt, agg, turns>>

\* The caller goes on after build_team has returned or raised.
BuildExit ==
  /\ bld.pc = "done"
  /\ bld' = IdleBuild
  /\ UNCHANGED <<selected, scored, players, last, opt, first_team, agg, turns>>

Init ==
  /\ selected = <<>>
  /\ players = 1..NumCodes
  /\ scored = get_all_scores(1..NumCodes, DefaultN)
  /\ last = NoCall
  /\ opt = IdleFrame
  /\ bld = IdleBuild
  /\ first_team = <<>>
  /\ agg = NoAggregate
  /\ turns = 0

Next ==
  \/ \E c \in players : Add(c)
  \/ \E c \in players : Remove(c)
  \/ \E iterations \in 1..MaxIterations, spv \in BOOLEAN :
       OptStart(iterations, spv)
  \/ OptPass
  \/ OptTry
  \/ OptExit

Spec == Init /\ [][Next]_vars

\* Sessions that run the optimiser on a squad of r to MaxSquad players of
\* the table.  A running call takes its next loop turn (OptPass or OptTry).
OptimiserSquads ==
  {StableSort(SetToSeq(S), squad_order) :
     S \in {T \in SUBSET (1..NumCodes) :
              /\ Cardinality(T) \in r..MaxSquad
              /\ \A c \in T : add_player_outcome(SetToSeq(T \ {c}), c) = "ok"}}

InitOptimise ==
  /\ players = 1..NumCodes
  /\ scored = get_all_scores(1..NumCodes, DefaultN)
  /\ selected \in OptimiserSquads
  /\ last = NoCall
  /\ opt = IdleFrame
  /\ bld = IdleBuild
  /\ first_team = <<>>
  /\ agg = NoAggregate
  /\ turns = 0

NextOptimise ==
  \/ \E iterations \in 1..MaxIterations, spv \in BOOLEAN :
       OptStart(iterations, spv)
  \/ OptPass
  \/ OptTry
  \/ OptExit

OptTurn ==
  /\ opt.pc \in {"loop", "try"}
  /\ turns' = turns + 1

SpecOptimise == InitOptimise /\ [][NextOptimise]_vars /\ WF_turns(OptTurn)

\* Sessions that run the optimiser on the larger table, from every squad of
\* r players that add_player accepts.
valid_squad(S) ==
  \A c \in S : add_player_outcome(SetToSeq(S \ {c}), c) = "ok"

SmallSquads ==
  {S \in SUBSET (1..NumBuildCodes) : Cardinality(S) = r /\ valid_squad(S)}

InitSwap ==
  /\ players = 1..NumBuildCodes
  /\ scored = get_all_scores(players, DefaultN)
  /\ selected \in {StableSort(SetToSeq(S), squad_order) : S \in SmallSquads}
  /\ last = NoCall
  /\ opt = IdleFrame
  /\ bld = IdleBuild
  /\ first_team = <<>>
  /\ agg = NoAggregate
  /\ turns = 0

SpecSwap == InitSwap /\ [][NextOptimise]_vars

\* Sessions that run the optimiser for one iteration on the larger table,
\* from every full squad that add_player accepts.
of_position(pos, k) ==
  {T \in SUBSET {c \in 1..NumBuildCodes : Position(c) = pos} :
     Cardinality(T) = k}

FullSquads ==
  {S \in {gk \cup def \cup mid \cup fwd :
            gk \in of_position("GK", limits["GK"]),
            def \in of_position("DEF", limits["DEF"]),
            mid \in of_position("MID", limits["MID"]),
            fwd \in of_position("FWD", limits["FWD"])} : valid_squad(S)}

InitFull ==
  /\ players = 1..NumBuildCodes
  /\ scored = get_all_scores(players, DefaultN)
  /\ selected \in {StableSort(SetToSeq(S), squad_order) : S \in FullSquads}
  /\ last = NoCall
  /\ opt = IdleFrame
  /\ bld = IdleBuild
  /\ first_team = <<>>
  /\ agg = NoAggregate
  /\ turns = 0

NextFull ==
  \/ \E spv \in BOOLEAN : OptStart(1, spv)
  \/ OptPass
  \/ OptTry
  \/ OptExit

SpecFull == InitFull /\ [][NextFull]_vars

\* Sessions that build squads with build_team.
InitBuild ==
  /\ selected = <<>>
  /\ players \in {1..NumCodes, 1..NumBuildCodes}
  /\ scored = get_all_scores(players, DefaultN)
  /\ last = NoCall
  /\ opt = IdleFrame
  /\ bld = IdleBuild
  /\ first_team = <<>>
  /\ agg = NoAggregate
  /\ turns = 0

NextBuild ==
  \/ \E n \in BuildWindows, n_premium \in PremiumCounts :
       BuildStart(n, n_premium)
  \/ BuildPremium
  \/ BuildFill
  \/ BuildExit

SpecBuild == InitBuild /\ [][NextBuild]_vars

\* Sessions that build squads with build_team and then change the built
\* squad by hand with add_player and remove_player for the players of
\* RosterCodes, while at most MaxMissing of the 15 players are missing.
RosterCodes == 1..NumCodes

RosterAdd(c) == Len(selected) >= 15 - MaxMissing /\ Add(c)

RosterRemove(c) == Len(selected) > 15 - MaxMissing /\ Remove(c)

NextRoster ==
  \/ \E n \in BuildWindows, n_premium \in PremiumCounts :
       BuildStart(n, n_premium)
  \/ BuildPremium
  \/ BuildFill
  \/ BuildExit
  \/ \E c \in players \cap RosterCodes : RosterAdd(c)
  \/ \E c \in players \cap RosterCodes : RosterRemove(c)

SpecRoster == InitBuild /\ [][NextRoster]_vars

\* Sessions that pick the first team of a full squad.  The squad holds 2 GK,
\* 5 DEF, 5 MID and 3 FWD of the players table; the scores of a position do
\* not increase along its list.
TeamSquad ==
  ("GK" :> <<4, 19>>) @@ ("DEF" :> <<11, 12, 13, 14, 15>>)
  @@ ("MID" :> <<9, 16, 17, 18, 20>>) @@ ("FWD" :> <<7, 5, 22>>)
TeamCodes == UNION {Range(TeamSquad[pos]) : pos \in Positions}

ScoreVectors(k) ==
  {v \in [1..k -> 1..MaxScore] : \A i \in 1..(k - 1) : v[i] >= v[i + 1]}

scored_row(c, pts) ==
  [score |-> pts, score_per_value |-> (pts * SpvScale) \div Value(c),
   minutes |-> DefaultN * MinutesPerGame, periods |-> DefaultN]

\* The frame of the full squad: the rows in the order add_player keeps.
FullSquad == StableSort(SetToSeq(TeamCodes), squad_order)

PickFirstTeam ==
  /\ bld.pc = "idle"
  /\ squad_full(selected)
  /\ first_team' = pick_first_team(selected)
  /\ UNCHANGED <<selected, scored, players, last, opt, bld, agg, turns>>

InitTeam ==
  /\ players = TeamCodes
  /\ \E gk \in ScoreVectors(2), def \in ScoreVectors(5),
        mid \in ScoreVectors(5), fwd \in ScoreVectors(3) :
       LET pts == ("GK" :> gk) @@ ("DEF" :> def) @@ ("MID" :> mid)
                  @@ ("FWD" :> fwd)
           ix(c) == CHOOSE i \in 1..Len(TeamSquad[Position(c)]) :
                      TeamSquad[Position(c)][i] = c
       IN scored = [c \in TeamCodes |-> scored_row(c, pts[Position(c)][ix(c)])]
  /\ selected = FullSquad
  /\ last = NoCall
  /\ opt = IdleFrame
  /\ bld = IdleBuild
  /\ first_team = <<>>
  /\ agg = NoAggregate
  /\ turns = 0

NextTeam == PickFirstTeam

SpecTeam == InitTeam /\ [][NextTeam]_vars

\* Sessions that ask the PlayerScorer for the minutes percent of a player
\* (one who plays every gameweek, one who started late) at any gameweek of
\* the data, for any window.
ScorerCodes == {1, 15}

GetPlayerMinutesPercent(c, ix, n, cross_seasons) ==
  /\ agg' = [op |-> "get_player_minutes_percent", code |-> c, ix |-> ix,
             n |-> n, cross_seasons |-> cross_seasons,
             indices |-> window(ix, n, cross_seasons),
             minutes |-> get_player_minutes_percent(c, ix, n,
                                                    cross_seasons).minutes,
             divisor |-> get_player_minutes_percent(c, ix, n,
                                                    cross_seasons).divisor]
  /\ UNCHANGED <<selected, scored, players, last, opt, bld, first_team,
                 turns>>

NextScorer ==
  \E c \in ScorerCodes, ix \in 1..Len(ix_list), n \in 1..MaxWindow,
     cross_seasons \in BOOLEAN :
     GetPlayerMinutesPercent(c, ix, n, cross_seasons)

SpecScorer == Init /\ [][NextScorer]_vars

TypeOK ==
  /\ selected \in Seq(players)
  /\ opt.pc \in {"idle", "loop", "try", "done"}
  /\ bld.pc \in {"idle", "premium", "fill", "done"}

\* ================================================================== claims
no_duplicates(sel) == Cardinality(Range(sel)) = Len(sel)

\* C1: in every state reached by add calls (accepted or rejected), remove
\* calls and committed optimiser swaps, the prices of the held players sum
\* to at most the cap, so available_budget is never negative.
C1_TotalValueWithinCap ==
  /\ total_value(selected) <= cap
  /\ available_budget(selected) >= 0

C1_Witness ==
  /\ last.op = "add" /\ last.result = "NotEnoughMoney"
  /\ total_value(selected) + Value(last.code) > cap
  /\ Len(selected) > 0

\* C2: the number of held players of each position never exceeds the limit
\* of the position, and the squad never holds more than 15 players.
C2_PositionCountsWithinLimits ==
  /\ \A pos \in Positions : position_count(selected, pos) <= limits[pos]
  /\ Len(selected) <= 15

C2_Witness ==
  /\ last.op = "add" /\ last.result = "PositionFilled"
  /\ position_count(selected, Position(last.code)) = limits[Position(last.code)]

\* C3: no player code is held twice.
C3_NoDuplicateCodes == no_duplicates(selected)

C3_Witness ==
  /\ last.op = "add" /\ last.result = "AlreadySelected"
  /\ last.code \in Range(selected)

\* C4: no team has more than 3 held players, also while the squad holds
\* fewer than 3 players and maxed_out_teams is short-circuited to empty.
C4_TeamCountsWithinThree ==
  \A t \in Teams : team_count(selected, t) <= 3

C4_Witness ==
  /\ last.op = "add" /\ last.result = "MaxedOutTeam"
  /\ team_count(selected, Team(last.code)) = 3

squad_invariants(sel) ==
  /\ total_value(sel) <= cap
  /\ \A pos \in Positions : position_count(sel, pos) <= limits[pos]
  /\ no_duplicates(sel)
  /\ \A t \in Teams : team_count(sel, t) <= 3

\* C5: a build_team call that returns normally returns a squad of exactly
\* 15 players satisfying the squad invariants, never a partially filled
\* squad and never nothing, also when it filled the squad only after
\* degrading; any other end of the call is a raised failure.
C5_BuildReturnsFullSquad ==
  (bld.pc = "done" /\ bld.outcome = "returned") =>
     /\ bld.result = "squad"
     /\ Len(selected) = 15
     /\ squad_invariants(selected)

\* C6: build_team makes at most premium_count + 1 build attempts; an empty
\* pool with premium_count = 0 ends the call instead of starting another
\* attempt.
C6_AttemptsBounded ==
  bld.pc # "idle" => bld.depth <= bld.n_premium0 + 1

C8_SwapsIncreaseTotal ==
  opt.pc # "idle" =>
     /\ opt.swaps > 0 => opt.added > 0
     /\ opt.increase >= 0
     /\ opt.increase = squad_total(selected, opt.spv) - opt.original_score

C8_Witness ==
  /\ opt.swaps > 1
  /\ opt.spv
  /\ opt.increase > opt.added

\* The conditions of an add call as the contract words them.
violates_position(sel, c) ==
  position_count(sel, Position(c)) >= limits[Position(c)]
violates_budget(sel, c) == total_value(sel) + Value(c) > cap
violates_duplicate(sel, c) == \E i \in 1..Len(sel) : sel[i] = c
violates_team(sel, c) == team_count(sel, Team(c)) >= 3

first_violated(sel, c) ==
  IF violates_position(sel, c) THEN "PositionFilled"
  ELSE IF violates_budget(sel, c) THEN "NotEnoughMoney"
  ELSE IF violates_duplicate(sel, c) THEN "AlreadySelected"
  ELSE IF violates_team(sel, c) THEN "MaxedOutTeam"
  ELSE "ok"

violations(sel, c) ==
  (IF violates_position(sel, c) THEN 1 ELSE 0)
  + (IF violates_budget(sel, c) THEN 1 ELSE 0)
  + (IF violates_duplicate(sel, c) THEN 1 ELSE 0)
  + (IF violates_team(sel, c) THEN 1 ELSE 0)

\* C9: an add call that violates one or more conditions reports the first
\* violated one in the order position limit (PositionFilled), budget
\* (NotEnoughMoney), duplicate code (AlreadySelected), team quota
\* (MaxedOutTeam).
C9_FirstViolationReported ==
  (last.op = "add" /\ violations(last.before, last.code) > 0) =>
     last.result = first_violated(last.before, last.code)

C9_Witness ==
  /\ last.op = "add"
  /\ violations(last.before, last.code) > 1
  /\ ~violates_position(last.before, last.code)

\* C10: add succeeds exactly when the position holds fewer players than its
\* limit, the total value plus the value of the player is at most the cap,
\* the code is not held and the team holds fewer than 3 players; a GK of
\* value 1001 on an empty squad is rejected for the budget and a third GK
\* is rejected for the position.
C10_AddSucceedsExactlyWhenAllowed ==
  last.op = "add" =>
     /\ last.result = "ok" <=>
          /\ position_count(last.before, Position(last.code))
                < limits[Position(last.code)]
          /\ total_value(last.before) + Value(last.code) <= cap
          /\ last.code \notin Range(last.before)
          /\ team_count(last.before, Team(last.code)) < 3
     /\ last.result = "ok" =>
          Range(selected) = Range(last.before) \cup {last.code}
     /\ (last.before = <<>> /\ Position(last.code) = "GK"
          /\ Value(last.code) = 1001) => last.result = "NotEnoughMoney"
     /\ (Position(last.code) = "GK"
          /\ position_count(last.before, "GK") = 2)
            => last.result = "PositionFilled"

C10_Witness ==
  /\ last.op = "add" /\ last.result = "ok"
  /\ total_value(selected) = cap

\* C11: remove_player of a code that is not held raises and leaves the squad
\* as it was; of a held code it removes exactly that player and keeps every
\* other one; add_player of the same player right afterwards is accepted and
\* the set of held codes is again the one before the removal.
C11_RemoveThenAddRestores ==
  /\ last.op = "remove" =>
       IF last.code \in Range(last.before)
       THEN /\ last.result = "ok"
            /\ Range(selected) = Range(last.before) \ {last.code}
            /\ Len(selected) = Len(last.before) - 1
       ELSE /\ last.result = "ValueError"
            /\ selected = last.before
  /\ (last.op = "add" /\ last.reinsert) =>
       /\ last.result = "ok"
       /\ last.code \notin Range(last.before)
       /\ Range(selected) = Range(last.before) \cup {last.code}

C11_Witness ==
  /\ last.op = "add" /\ last.reinsert /\ last.result = "ok"
  /\ team_count(selected, Team(last.code)) = 3
  /\ Len(selected) > 3

\* C12: an optimiser attempt whose additions are not all accepted leaves the
\* squad exactly as it was before the attempt and does not end the call; an
\* accepted attempt replaces r held players by r others in one step.
C12_SwapAttemptAtomic ==
  last.op = "swap" =>
     /\ last.result # "ok" =>
          /\ selected = last.before
          /\ opt.outcome # "raised"
     /\ last.result = "ok" =>
          /\ Len(selected) = Len(last.before)
          /\ Cardinality(Range(last.before) \ Range(selected)) = r
          /\ Cardinality(Range(selected) \ Range(last.before)) = r

C12_Witness ==
  /\ last.op = "swap" /\ last.result = "MaxedOutTeam"
  /\ opt.pc = "try"
  /\ selected = last.before

\* C13: in a build_team call, whatever n_premium is, every player the builder
\* selects from its pool is accepted by add_player, so that the call never
\* ends with PositionFilled, NotEnoughMoney, AlreadySelected or MaxedOutTeam.
C13_BuilderAddsAccepted ==
  /\ last.op = "add" => last.result = "ok"
  /\ bld.outcome \notin
       {"PositionFilled", "NotEnoughMoney", "AlreadySelected", "MaxedOutTeam"}

\* C14: no attempt of the optimiser ends with an exception leaving the call:
\* an attempt is accepted or rejected with AlreadySelected or MaxedOutTeam,
\* which are caught; a combination kept by subset_perms is never rejected
\* with PositionFilled or NotEnoughMoney.
C14_OptimiserErrorsCaught ==
  /\ opt.outcome # "raised"
  /\ last.op = "swap" =>
       last.result \in {"ok", "AlreadySelected", "MaxedOutTeam"}

C14_Witness ==
  /\ last.op = "swap" /\ last.result = "ok"
  /\ \E c \in Range(selected) \ Range(last.before) :
        /\ position_filled(last.before, c)
        /\ not_enough_money(last.before, c)

is_starting_eleven(team, sel) ==
  /\ Len(team) = 11
  /\ Cardinality(Range(team)) = 11
  /\ Range(team) \subseteq Range(sel)
  /\ position_count(team, "GK") = 1

greedy_eleven(sel) == top_eleven(StableSort(sel, first_team_order))

\* C15: for a full squad, whatever the scores, the first team (the one
\* Squad.first_team gives and the one pick_first_team stores) has exactly 11
\* distinct players, all of them in the squad, exactly one of them a GK.
C15_FirstTeamElevenOneKeeper ==
  /\ squad_full(selected) =>
       is_starting_eleven(Squad_first_team(selected), selected)
  /\ first_team # <<>> => is_starting_eleven(first_team, selected)

C15_Witness ==
  /\ first_team # <<>>
  /\ position_count(greedy_eleven(selected), "GK") = 0
  /\ position_count(first_team, "GK") = 1

formation(team) ==
  <<position_count(team, "DEF"), position_count(team, "MID"),
    position_count(team, "FWD")>>

LegalFormations ==
  {<<3, 4, 3>>, <<3, 5, 2>>, <<4, 3, 3>>, <<4, 4, 2>>, <<4, 5, 1>>,
   <<5, 3, 2>>, <<5, 4, 1>>}

\* C16: for a full squad, whatever the scores, the numbers of defenders,
\* midfielders and forwards of the first team are one of the 7 legal
\* formations 3-4-3, 3-5-2, 4-3-3, 4-4-2, 4-5-1, 5-3-2, 5-4-1.
C16_FirstTeamLegalFormation ==
  /\ squad_full(selected) =>
       formation(Squad_first_team(selected)) \in LegalFormations
  /\ first_team # <<>> => formation(first_team) \in LegalFormations

\* C17: when the 11 rows taken in order of score leave a position with
\* nobody, pick_first_team drops the last of the chosen non-keepers and
\* takes the best player of that position, once; the first team then has 11
\* distinct players and at least one player of every position.  At most
\* one position is left with nobody.
C17_RepairFillsEveryPosition ==
  first_team # <<>> =>
     LET df == StableSort(selected, first_team_order)
         greedy == greedy_eleven(selected)
         missing == {pos \in Positions : position_count(greedy, pos) = 0}
         others == SelectSeq2(greedy, LAMBDA c : Position(c) # "GK")
         best(pos) == SelectSeq2(df, LAMBDA c : Position(c) = pos)[1]
     IN /\ Cardinality(missing) <= 1
        /\ missing = {} => first_team = greedy
        /\ \A pos \in missing :
             /\ Range(first_team) =
                  (Range(greedy) \ {others[Len(others)]}) \cup {best(pos)}
             /\ Len(first_team) = 11
             /\ Cardinality(Range(first_team)) = 11
             /\ \A q \in Positions : position_count(first_team, q) >= 1

\* C18: on a full squad the captain and the vice captain are two different
\* players of the first team, the captain with the highest score of the
\* first team and the vice captain with the highest score of the others.
is_captain_pair(cap_code, vice_code, team) ==
  /\ cap_code # vice_code
  /\ cap_code \in Range(team)
  /\ vice_code \in Range(team)
  /\ \A c \in Range(team) : score(c) <= score(cap_code)
  /\ \A c \in Range(team) \ {cap_code} : score(c) <= score(vice_code)

C18_CaptainsLeadFirstTeam ==
  /\ squad_full(selected) =>
       is_captain_pair(Squad_captain(selected), Squad_vice_captain(selected),
                       Squad_first_team(selected))
  /\ first_team # <<>> =>
       \A pair \in captain_choices(first_team) :
          is_captain_pair(pair[1], pair[2], first_team)

\* The position subsets and the largest values asked of the pool.
PoolPositions == {PositionNone, {}, {"GK"}, {"DEF", "MID"}}
PoolMaxVals == {-1, 50}

pool_respects(sel, position, max_val) ==
  LET pool == Range(player_pool(sel, position, max_val))
  IN /\ pool \subseteq DOMAIN scored
     /\ \A c \in pool :
          /\ c \notin Range(sel)
          /\ team_count(sel, Team(c)) < 3
          /\ position # PositionNone => Position(c) \in position
          /\ max_val # -1 => Value(c) <= max_val
     /\ position = PositionNone =>
          pool = Range(player_pool(sel, Positions, max_val))
     /\ max_val = -1 =>
          pool = Range(player_pool(sel, position, cap + 1))

\* C19: whatever the squad and the predicates, the pool holds only players
\* of the scored map that are not in the squad, whose team has fewer than 3
\* players in the squad, whose position is in the requested subset and
\* whose value is at most max_val, when these are given; position None or
\* max_val None removes nobody.
C19_PoolRespectsPredicates ==
  \A position \in PoolPositions \cup {need_positions(selected)},
     max_val \in PoolMaxVals \cup {available_budget(selected)} :
     pool_respects(selected, position, max_val)

\* The orders of the two phases of a build, as triples to be compared from
\* the left: larger metric first, then smaller value, then larger other
\* metric.
slot_key(c, by_roi) ==
  IF by_roi THEN <<score_per_value(c), 0 - Value(c), score(c)>>
  ELSE <<score(c), 0 - Value(c), score_per_value(c)>>

key_before(k1, k2) ==
  \/ k1[1] > k2[1]
  \/ k1[1] = k2[1] /\ k1[2] > k2[2]
  \/ k1[1] = k2[1] /\ k1[2] = k2[2] /\ k1[3] > k2[3]

\* C20: at each of the 15 slots of a build the builder adds a player of its
\* pool that no other player of the pool precedes: in the first n_premium
\* slots by score (descending), value (ascending), score_per_value
\* (descending); in the other slots by score_per_value (descending), value
\* (ascending), score (descending).  Of the players equal on the first key
\* the cheapest is taken.
C20_SlotTakesFirstOfPool ==
  (last.op = "add" /\ bld.pc # "idle" /\ Len(last.before) < 15) =>
     LET pool == Range(build_pool(last.before))
         by_roi == Len(last.before) >= bld.n_premium
         key(c) == slot_key(c, by_roi)
     IN /\ last.code \in pool
        /\ \A d \in pool : ~key_before(key(d), key(last.code))
        /\ \A d \in pool :
             key(d)[1] = key(last.code)[1] => Value(last.code) <= Value(d)

C20_Witness ==
  /\ last.op = "add" /\ last.result = "ok" /\ bld.pc = "premium"
  /\ Len(last.before) < bld.n_premium
  /\ \E d \in Range(build_pool(last.before)) :
        /\ score(d) = score(last.code)
        /\ Value(d) > Value(last.code)

\* The n gameweeks of the data that end at index position ix.
most_recent(ix, n) == {t \in 1..Len(ix_list) : t <= ix /\ t > ix - n}

\* C21: for every gameweek of the data and every n >= 1 the scorer
\* aggregates over exactly the (up to n) most recent gameweeks ending at that
\* gameweek: the window holds the gameweek itself, no later one, and all the
\* earlier ones when there are fewer than n; without cross_seasons it holds
\* only those of the gameweek's own season.
C21_WindowIsMostRecent ==
  agg.op # "none" =>
     /\ agg.ix \in agg.indices
     /\ \A t \in agg.indices : t <= agg.ix
     /\ agg.cross_seasons => agg.indices = most_recent(agg.ix, agg.n)
     /\ ~agg.cross_seasons =>
          agg.indices = {t \in most_recent(agg.ix, agg.n) :
                           ix_list[t][1] = ix_list[agg.ix][1]}

\* C22: the minutes percent of a player is his minutes summed over the
\* window divided by (number of gameweeks in the window x 90), with and
\* without cross_seasons; it lies between 0 and 1.
C22_MinutesPercentOverWindow ==
  agg.op # "none" =>
     LET periods == Cardinality(agg.indices)
     IN /\ periods > 0
        /\ agg.minutes * agg.divisor = agg.minutes * periods * MinutesPerGame
        /\ 0 <= agg.minutes /\ agg.minutes <= agg.divisor

\* C23: when the pool is empty at a slot of a build attempt with n_premium
\* = k, the squad is emptied and the build is tried again with n_premium =
\* k - 1 and the same scoring window n.
C23_RetryKeepsWindow ==
  [][(bld.pc \in {"premium", "fill"} /\ bld'.depth = bld.depth + 1) =>
       /\ Len(build_pool(selected)) = 0
       /\ selected' = <<>>
       /\ bld'.n_premium = bld.n_premium - 1
       /\ bld'.n = bld.n]_vars

\* C24: when a pass of the optimiser commits no swap (there is no
\* optimisation, or add_player rejected every one that was tried), the call
\* ends at once: no pass is started after a pass without a swap, so every
\* pass before the running one has committed a swap.
C24_NoPassAfterFruitlessPass ==
  /\ opt.pc = "try" => opt.i = opt.swaps
  /\ (opt.pc = "done" /\ opt.outcome = "cant_optimise") => opt.i = opt.swaps

\* C25: every call of the optimiser ends; it makes at most `iterations`
\* passes and commits at most one swap in each, so at most `iterations`
\* swaps.
C25_OptimiserTerminates ==
  /\ [](opt.pc # "idle" =>
          /\ opt.i <= opt.iterations
          /\ opt.swaps <= opt.i
          /\ opt.swaps <= opt.iterations)
  /\ (opt.pc \in {"loop", "try"}) ~> (opt.pc = "done")

C25_Witness ==
  /\ opt.pc = "done" /\ opt.outcome = "exhausted"
  /\ opt.iterations = MaxIterations
  /\ opt.swaps = opt.iterations

\* The optimisations of a squad that add_player accepts, in the order of
\* the squad combinations (total of the active score column ascending).
accepted_rows(sel, spv) ==
  SelectSeq2(squad_optimisations_rows(sel, spv),
             LAMBDA o : try_optimisation(sel, o).result = "ok")

swap_removed == Range(last.before) \ Range(selected)
swap_added == Range(selected) \ Range(last.before)

eligible(add, remove, sel, spv) ==
  /\ add.positions = remove.positions
  /\ score_col_total(add, spv) > score_col_total(remove, spv)
  /\ add.value_total < available_budget(sel) + remove.value_total
  /\ add.players # remove.players

\* C27: every optimisation the optimiser tries, and so every swap it
\* commits, replaces a squad combination by a pool combination with the same
\* positions, a strictly greater total in the active score column, a total
\* value strictly less than the freed budget (available budget + value of
\* the squad combination) and other players; after a committed swap the
\* total value is strictly below the cap.
C27_ReplacementsEligible ==
  /\ opt.pc = "try" =>
       \A k \in 1..Len(opt.todo) :
          eligible(opt.todo[k].add, opt.todo[k].remove, selected, opt.spv)
  /\ (last.op = "swap" /\ last.result = "ok" /\ opt.pc # "idle") =>
       /\ eligible(perm_row(SetToSeq(swap_added)),
                   perm_row(SetToSeq(swap_removed)), last.before, opt.spv)
       /\ total_value(selected) < cap

C27_Witness ==
  /\ \/ opt.pc = "try"
     \/ opt.pc = "done" /\ opt.outcome = "cant_optimise"
  /\ LET squad_perms == get_perms(selected)
         pool_perms == get_perms(get_player_pool(selected))
     IN \E i \in 1..Len(squad_perms), k \in 1..Len(pool_perms) :
          /\ pool_perms[k].positions = squad_perms[i].positions
          /\ score_col_total(pool_perms[k], opt.spv)
               > score_col_total(squad_perms[i], opt.spv)
          /\ pool_perms[k].value_total
               = available_budget(selected) + squad_perms[i].value_total
          /\ \A j \in 1..Len(opt.todo) :
               opt.todo[j].remove.players = squad_perms[i].players =>
                 /\ opt.todo[j].add.players # pool_perms[k].players
                 /\ score_col_total(opt.todo[j].add, opt.spv)
                      < score_col_total(pool_perms[k], opt.spv)

\* C28: every swap the optimiser commits takes exactly r held players out
\* and brings exactly r players in that were not held, and leaves the size
\* of the squad and the count of every position unchanged; a squad that is
\* full when the optimiser is called is full during the call, after every
\* pass and when it has ended.
C28_SwapKeepsShape ==
  /\ (last.op = "swap" /\ last.result = "ok") =>
       /\ Cardinality(swap_removed) = r
       /\ Cardinality(swap_added) = r
       /\ swap_added \cap Range(last.before) = {}
       /\ no_duplicates(selected)
       /\ Len(selected) = Len(last.before)
       /\ \A pos \in Positions :
            position_count(selected, pos) = position_count(last.before, pos)
  /\ (opt.pc # "idle" /\ squad_full(opt.start)) => squad_full(selected)

C28_Witness ==
  /\ opt.pc = "done" /\ opt.swaps = 1
  /\ last.op = "swap" /\ last.result = "ok"
  /\ squad_full(opt.start) /\ squad_full(selected)
  /\ Cardinality(swap_removed) = r

\* C29: in every squad reached by add_player and remove_player calls,
\* squad_full holds exactly when need_positions is empty, and need_positions
\* is the set of positions that hold fewer players than their limit; so
\* when build_team fetches the pool for one of the 15 slots of the squad,
\* need_positions is not empty.
below_limit(sel) == {pos \in Positions : position_count(sel, pos) < limits[pos]}

fetches_pool ==
  \/ bld.pc = "premium" /\ bld.p < bld.n_premium
  \/ bld.pc = "fill" /\ bld.p < bld.fill

C29_FullIffNothingNeeded ==
  /\ squad_full(selected) <=> need_positions(selected) = {}
  /\ need_positions(selected) = below_limit(selected)
  /\ (fetches_pool /\ Len(selected) < 15) => need_positions(selected) # {}

C29_Witness ==
  /\ last.op = "add" /\ last.result = "ok" /\ last.reinsert = FALSE
  /\ bld.pc = "idle"
  /\ Len(last.before) = 14 /\ need_positions(last.before) # {}
  /\ squad_full(selected) /\ need_positions(selected) = {}

\* C30: an add_player call that raises PositionFilled, NotEnoughMoney,
\* AlreadySelected or MaxedOutTeam leaves the squad as it was: the same rows
\* in the same order, hence the same players held, the same total value and
\* the same count for every position and every team.
Rejections == {"PositionFilled", "NotEnoughMoney", "AlreadySelected",
               "MaxedOutTeam"}

C30_RejectedAddChangesNothing ==
  (last.op = "add" /\ last.result \in Rejections) =>
    /\ selected = last.before
    /\ selected_list(selected) = selected_list(last.before)
    /\ total_value(selected) = total_value(last.before)
    /\ \A pos \in Positions :
         position_count(selected, pos) = position_count(last.before, pos)
    /\ \A t \in Teams : team_count(selected, t) = team_count(last.before, t)

C30_Witness ==
  /\ last.op = "add" /\ last.result = "MaxedOutTeam"
  /\ Len(last.before) >= 3
  /\ last.code \notin selected_list(selected)
  /\ selected = last.before

====
